---------------------------- MODULE Spec2Model ----------------------------
(***************************************************************************)
(* A model of the two utilities of the repository:                         *)
(*                                                                         *)
(*   src/test-unpack.py            expand_float, unpack_48bit_quaternion   *)
(*   src/web/tools/bnsh/bnsh2glsl.py   convert_bnsh, main                  *)
(*                                                                         *)
(* Python's int is an arbitrary-precision integer and Python's float is an *)
(* IEEE-754 binary64 number.  TLC's integers are 32 bits wide, so both are *)
(* modelled on top of a small natural-number arithmetic over 15-bit limbs: *)
(* a Python int (the 48-bit pack) is a limb sequence, a float is a sign,   *)
(* a binary exponent and a 53-bit mantissa, and every float operation is   *)
(* the exact result rounded to nearest, ties to even.                      *)
(***************************************************************************)
EXTENDS Integers, Sequences, FiniteSets

VARIABLES
    \* ---- src/test-unpack.py ----
    upc,                \* "called" | "returned" | "raised": the call of unpack_48bit_quaternion
    args,               \* <<x, y, z>> of the last call
    pack,               \* local pack (a Python int)
    fld,                \* the three arguments given to expand_float on lines 28-30
    q,                  \* <<q1, q2, q3>> (floats)
    max_component,      \* local max_component after line 34 (float)
    missing_component,  \* local missing_component
    values,             \* local values after the insert of line 36
    is_negative,        \* local is_negative
    ret,                \* the returned list
    \* ---- expand_float called on its own ----
    epc,                \* "called" | "returned"
    ei,                 \* the argument i
    eret,               \* the returned float
    \* ---- src/web/tools/bnsh/bnsh2glsl.py ----
    bpc,                \* the statement the process running main is at
    argv_len,           \* len(sys.argv)
    input_exists,       \* the file system: input_path.exists()
    suffix_ok,          \* the argument: input_path.suffix.lower() == '.bnsh'
    tool_exists,        \* the file system: BNSH_TO_GLSL_EXE.exists()
    checked,            \* the checks of convert_bnsh passed so far, in order
    runs,               \* number of times subprocess.run was called
    returncode,         \* exit status of the external executable, -1 before it ends
    caught,             \* the except clause entered: "none", "CalledProcessError", "Exception"
    out_exists,         \* output_path.exists() as seen on line 70
    n_glsl,             \* len(glsl_files)
    console,            \* what was printed, one tag per message block
    success,            \* the value convert_bnsh returned
    exit_code           \* the status given to sys.exit, -1 while running

uvars == <<upc, args, pack, fld, q, max_component, missing_component, values, is_negative, ret>>
evars == <<epc, ei, eret>>
benv == <<argv_len, input_exists, suffix_ok, tool_exists>>
bvars == <<bpc, benv, checked, runs, returncode, caught, out_exists, n_glsl, console, success,
           exit_code>>
vars == <<uvars, evars, bvars>>

-----------------------------------------------------------------------------
(***************************************************************************)
(* Natural numbers of any size: little-endian sequences of 15-bit limbs    *)
(* with no leading zero limb, so that equal numbers are equal sequences.   *)
(***************************************************************************)
LimbBits == 15
Base == 32768

Min(a, b) == IF a <= b THEN a ELSE b
Max(a, b) == IF a >= b THEN a ELSE b

\* 2^k for 0 <= k <= 30
Pow2(k) ==
    LET p[i \in 0..30] == IF i = 0 THEN 1 ELSE 2 * p[i - 1]
    IN p[k]

Limb(a, i) == IF i >= 1 /\ i <= Len(a) THEN a[i] ELSE 0

RECURSIVE BTrim(_)
BTrim(a) ==
    IF a = <<>> THEN a
    ELSE IF a[Len(a)] = 0 THEN BTrim(SubSeq(a, 1, Len(a) - 1))
    ELSE a

\* a Python int literal or machine-size value n >= 0 as a limb sequence
RECURSIVE BFromInt(_)
BFromInt(n) == IF n = 0 THEN <<>> ELSE <<n % Base>> \o BFromInt(n \div Base)

\* the value of a limb sequence known to be below 2^30
BToInt(a) == Limb(a, 1) + Base * Limb(a, 2)

\* a + b + c for a carry c in {0, 1}
RECURSIVE BAddC(_, _, _)
BAddC(a, b, c) ==
    IF a = <<>> THEN (IF c = 0 THEN b ELSE IF b = <<>> THEN <<c>> ELSE BAddC(<<c>>, b, 0))
    ELSE IF b = <<>> THEN (IF c = 0 THEN a ELSE BAddC(a, <<c>>, 0))
    ELSE LET t == a[1] + b[1] + c
         IN <<t % Base>> \o BAddC(Tail(a), Tail(b), t \div Base)

BAdd(a, b) == BAddC(a, b, 0)

\* a - b - w for a >= b + w and a borrow w in {0, 1}; leading zero limbs are kept
RECURSIVE BSubW(_, _, _)
BSubW(a, b, w) ==
    IF a = <<>> THEN <<>>
    ELSE IF b = <<>> /\ w = 0 THEN a
    ELSE LET t == a[1] - (IF b = <<>> THEN 0 ELSE b[1]) - w
         IN <<(t + Base) % Base>>
            \o BSubW(Tail(a), IF b = <<>> THEN b ELSE Tail(b), IF t < 0 THEN 1 ELSE 0)

\* a - b for a >= b
BSub(a, b) == BTrim(BSubW(a, b, 0))

\* -1, 0, 1 as a < b, a = b, a > b, for a and b of one length, from limb i down
RECURSIVE BCmpFrom(_, _, _)
BCmpFrom(a, b, i) ==
    IF i = 0 THEN 0
    ELSE IF a[i] # b[i] THEN (IF a[i] < b[i] THEN -1 ELSE 1)
    ELSE BCmpFrom(a, b, i - 1)

\* -1, 0, 1 as a < b, a = b, a > b
BCmp(a, b) ==
    IF Len(a) # Len(b) THEN (IF Len(a) < Len(b) THEN -1 ELSE 1)
    ELSE BCmpFrom(a, b, Len(a))

\* a * k + c for 0 < k < Base and 0 <= c < Base
RECURSIVE BMulC(_, _, _)
BMulC(a, k, c) ==
    IF a = <<>> THEN (IF c = 0 THEN <<>> ELSE <<c>>)
    ELSE LET t == a[1] * k + c
         IN <<t % Base>> \o BMulC(Tail(a), k, t \div Base)

\* a * k for 0 <= k < Base
BMulSmall(a, k) == IF k = 0 THEN <<>> ELSE IF k = 1 THEN a ELSE BMulC(a, k, 0)

BShlLimbs(a, n) == IF a = <<>> \/ n = 0 THEN a ELSE [i \in 1..n |-> 0] \o a

\* a << k
BShl(a, k) == BShlLimbs(BMulSmall(a, Pow2(k % LimbBits)), k \div LimbBits)

\* floor((r * Base^i + a[1..i]) / d), limb i first, for 0 <= r < d < Base;
\* leading zero limbs are kept
RECURSIVE BDivR(_, _, _, _)
BDivR(a, d, i, r) ==
    IF i = 0 THEN <<>>
    ELSE LET t == r * Base + a[i]
         IN BDivR(a, d, i - 1, t % d) \o <<t \div d>>

\* a \div d for 0 < d < Base
BDivSmall(a, d) == IF d = 1 THEN a ELSE BTrim(BDivR(a, d, Len(a), 0))

\* (r * Base^i + a[1..i]) % d
RECURSIVE BModR(_, _, _, _)
BModR(a, d, i, r) == IF i = 0 THEN r ELSE BModR(a, d, i - 1, (r * Base + a[i]) % d)

\* a % d for 0 < d < Base
BModSmall(a, d) == BModR(a, d, Len(a), 0)

\* a >> k
BShr(a, k) ==
    LET n == k \div LimbBits
    IN IF n >= Len(a) THEN <<>>
       ELSE BDivSmall(SubSeq(a, n + 1, Len(a)), Pow2(k % LimbBits))

RECURSIVE BMul(_, _)
BMul(a, b) ==
    IF b = <<>> \/ a = <<>> THEN <<>>
    ELSE BAdd(BMulSmall(a, b[1]), BShlLimbs(BMul(a, Tail(b)), 1))

\* number of bits of a machine-size n >= 0
RECURSIVE BitLenInt(_)
BitLenInt(n) == IF n = 0 THEN 0 ELSE 1 + BitLenInt(n \div 2)

BBitLen(a) == IF a = <<>> THEN 0 ELSE (Len(a) - 1) * LimbBits + BitLenInt(a[Len(a)])

\* bit i (0 = least significant) of a
BBit(a, i) == (Limb(a, (i \div LimbBits) + 1) \div Pow2(i % LimbBits)) % 2

\* the low k bits of a are all zero
BLowZero(a, k) ==
    /\ \A i \in 1..Min(k \div LimbBits, Len(a)) : a[i] = 0
    /\ Limb(a, (k \div LimbBits) + 1) % Pow2(k % LimbBits) = 0

\* bitwise | and & of two machine-size values below 2^15
RECURSIVE OrInt(_, _)
OrInt(u, v) ==
    IF u = 0 THEN v ELSE IF v = 0 THEN u
    ELSE Max(u % 2, v % 2) + 2 * OrInt(u \div 2, v \div 2)

RECURSIVE AndInt(_, _)
AndInt(u, v) ==
    IF u = 0 \/ v = 0 THEN 0
    ELSE Min(u % 2, v % 2) + 2 * AndInt(u \div 2, v \div 2)

\* Python's a | b and a & b on non-negative ints
BOr(a, b) == BTrim([i \in 1..Max(Len(a), Len(b)) |-> OrInt(Limb(a, i), Limb(b, i))])
BAnd(a, b) == BTrim([i \in 1..Min(Len(a), Len(b)) |-> AndInt(a[i], b[i])])

\* floor(sqrt(n)) by the digit recurrence, given the root bits i and above in r
\* and rem = n - r^2: bit i - 1 is set when (2r + 2^(i-1)) * 2^(i-1) <= rem
RECURSIVE BISqrtFrom(_, _, _)
BISqrtFrom(rem, r, i) ==
    IF Len(r) < 0 \/ Len(rem) < 0 \/ i = 0 THEN r
    ELSE LET b  == BShl(<<1>>, i - 1)
             t  == BShl(BAdd(BShl(r, 1), b), i - 1)
             ok == BCmp(t, rem) <= 0
         IN BISqrtFrom(IF ok THEN BSub(rem, t) ELSE rem, IF ok THEN BAdd(r, b) ELSE r, i - 1)

BISqrt(n) == BISqrtFrom(n, <<>>, (BBitLen(n) + 1) \div 2)

-----------------------------------------------------------------------------
(***************************************************************************)
(* Python floats: IEEE-754 binary64.  A float is [s, e, m]: sign s (1 is   *)
(* negative), and the value m * 2^e with m a 53-bit mantissa, or m = <<>>  *)
(* and e = 0 for a (signed) zero.  The numbers this program computes stay  *)
(* far inside the normal range, so infinities, NaN and subnormals are not  *)
(* represented; FInRange states the range and is checked with the claims.  *)
(***************************************************************************)
MantBits == 53

FZero(s) == [s |-> s, e |-> 0, m |-> <<>>]

\* the exact value (-1)^s * M * 2^e rounded to nearest, ties to even
FRound(s, e, M) ==
    LET L == BBitLen(M)
    IN IF L = 0 THEN FZero(s)
       ELSE IF L <= MantBits
       THEN [s |-> s, e |-> e - (MantBits - L), m |-> BShl(M, MantBits - L)]
       ELSE LET k    == L - MantBits
                t    == BShr(M, k)
                half == BBit(M, k - 1) = 1
                odd  == BBit(t, 0) = 1
                up   == half /\ (odd \/ ~BLowZero(M, k - 1))
                t2   == IF up THEN BAdd(t, <<1>>) ELSE t
            IN IF BBitLen(t2) > MantBits
               THEN [s |-> s, e |-> e + k + 1, m |-> BShr(t2, 1)]
               ELSE [s |-> s, e |-> e + k, m |-> t2]

\* float(n) for a Python int n >= 0 given as a limb sequence
FFromBig(M) == FRound(0, 0, M)

FFromInt(n) == FFromBig(BFromInt(n))

FNeg(a) == [a EXCEPT !.s = 1 - a.s]

FMul(a, b) == FRound((a.s + b.s) % 2, a.e + b.e, BMul(a.m, b.m))

FAdd(a, b) ==
    IF a.m = <<>> /\ b.m = <<>> THEN FZero(IF a.s = 1 /\ b.s = 1 THEN 1 ELSE 0)
    ELSE IF a.m = <<>> THEN b
    ELSE IF b.m = <<>> THEN a
    ELSE LET e == Min(a.e, b.e)
             A == BShl(a.m, a.e - e)
             B == BShl(b.m, b.e - e)
             c == BCmp(A, B)
         IN IF a.s = b.s THEN FRound(a.s, e, BAdd(A, B))
            ELSE IF c = 0 THEN FZero(0)
            ELSE IF c > 0 THEN FRound(a.s, e, BSub(A, B))
            ELSE FRound(b.s, e, BSub(B, A))

FSub(a, b) == FAdd(a, FNeg(b))

\* a / b for a divisor b # 0 of at most 15 significant bits (4.0, 2.0 and
\* float(SCALE) here): the quotient to 98 bits or more and a sticky bit, rounded
DivisorBits == 15
FDiv(a, b) ==
    IF a.m = <<>> THEN FZero((a.s + b.s) % 2)
    ELSE LET d  == BToInt(BShr(b.m, MantBits - DivisorBits))
             N  == BShl(a.m, 60)
             M  == BAdd(BShl(BDivSmall(N, d), 1),
                        IF BModSmall(N, d) = 0 THEN <<>> ELSE <<1>>)
         IN FRound((a.s + b.s) % 2, a.e - 60 - (b.e + MantBits - DivisorBits) - 1, M)

\* what stands for "math.sqrt raised ValueError: math domain error"
DomainError == [s |-> 0, e |-> 0, m |-> <<0>>]

\* math.sqrt(a): 55 or 56 root bits and a sticky bit, then rounded; a < 0 raises
FSqrt(a) ==
    IF a.m = <<>> THEN a
    ELSE IF a.s = 1 THEN DomainError
    ELSE LET k == IF (a.e - 57) % 2 = 0 THEN 57 ELSE 58
             N == BShl(a.m, k)
             r == BISqrt(N)
             M == BAdd(BShl(r, 1), IF BMul(r, r) = N THEN <<>> ELSE <<1>>)
         IN FRound(0, ((a.e - k) \div 2) - 1, M)

\* a < b
FLt(a, b) ==
    IF a.m = <<>> /\ b.m = <<>> THEN FALSE
    ELSE IF a.m = <<>> THEN b.s = 0
    ELSE IF b.m = <<>> THEN a.s = 1
    ELSE IF a.s # b.s THEN a.s = 1
    ELSE LET mag == IF a.e # b.e THEN (IF a.e < b.e THEN -1 ELSE 1) ELSE BCmp(a.m, b.m)
         IN IF a.s = 0 THEN mag < 0 ELSE mag > 0

\* a == b (the two zeros compare equal)
FEq(a, b) == ~FLt(a, b) /\ ~FLt(b, a)

FLe(a, b) == ~FLt(b, a)

\* Python's max(a, b): the first of the largest, so b only when b > a
FMax(a, b) == IF FLt(a, b) THEN b ELSE a

FAbs(a) == [a EXCEPT !.s = 0]

\* the float is zero or a normal binary64 number
FInRange(a) ==
    /\ a.s \in {0, 1}
    /\ \/ a.m = <<>> /\ a.e = 0
       \/ BBitLen(a.m) = MantBits /\ a.e >= -1074 /\ a.e <= 971

-----------------------------------------------------------------------------
(***************************************************************************)
(* src/test-unpack.py                                                      *)
(***************************************************************************)
\* math.pi, 0x1.921fb54442d18p+1
MATH_PI == [s |-> 0, e |-> -51, m |-> <<11544, 10376, 2029, 201>>]

SCALE == 32767
PI_QUARTER == FDiv(MATH_PI, FFromInt(4))
PI_HALF == FDiv(MATH_PI, FFromInt(2))

\* expand_float with the scale factor PI_HALF / 32768 (a slip the endpoint claim excludes)
expand_float_Div32768(i) ==
    FSub(FMul(FFromBig(i), FDiv(PI_HALF, FFromInt(SCALE + 1))), PI_QUARTER)

\* lines 9-15: i * (PI_HALF / SCALE) - PI_QUARTER, for a Python int i >= 0
expand_float(i) == FSub(FMul(FFromBig(i), FDiv(PI_HALF, FFromInt(SCALE))), PI_QUARTER)

\* line 26 with y shifted by 15: y and x would overlap in bit 15
PackOf_Shift15(x, y, z) ==
    BOr(BOr(BShl(BFromInt(z), 32), BShl(BFromInt(y), 15)), BFromInt(x))

\* line 26: (z << 32) | (y << 16) | x
PackOf(x, y, z) == BOr(BOr(BShl(BFromInt(z), 32), BShl(BFromInt(y), 16)), BFromInt(x))

\* lines 28-30: (pack >> shift) & 0x7FFF
Field(p, shift) == BAnd(BShr(p, shift), BFromInt(32767))

\* line 33: q1 * q1 + q2 * q2 + q3 * q3
SumSquares(q1, q2, q3) == FAdd(FAdd(FMul(q1, q1), FMul(q2, q2)), FMul(q3, q3))

\* line 33 without the clamp
Clamped_NoMax(q1, q2, q3) == FSub(FFromInt(1), SumSquares(q1, q2, q3))

\* line 33: max(1.0 - (...), 0.0)
Clamped(q1, q2, q3) == FMax(FSub(FFromInt(1), SumSquares(q1, q2, q3)), FZero(0))

\* lines 33-34 without line 34
MaxComponent_NoSqrt(q1, q2, q3) == Clamped(q1, q2, q3)

\* lines 33-34: max_component
MaxComponent(q1, q2, q3) == FSqrt(Clamped(q1, q2, q3))

\* line 35: pack & 0B0011
MissingComponent(p) == BToInt(BAnd(p, BFromInt(3)))

\* line 36 inserting after index i instead of before it
ListInsert_AfterIndex(l, i, v) ==
    LET k == Min(i + 1, Len(l))
    IN SubSeq(l, 1, k) \o <<v>> \o SubSeq(l, k + 1, Len(l))

\* line 36 as an assignment l[i] = v, which keeps the list three long
ListInsert_Overwrite(l, i, v) == [l EXCEPT ![Min(i + 1, Len(l))] = v]

\* line 36: l.insert(i, v) on a Python list l (a 1-based sequence here), i >= 0
ListInsert(l, i, v) ==
    LET k == Min(i, Len(l))
    IN SubSeq(l, 1, k) \o <<v>> \o SubSeq(l, k + 1, Len(l))

\* line 37: (pack & 0B0100) != 0
IsNegative(p) == BAnd(p, BFromInt(4)) # <<>>

\* lines 38-42 with the first component left un-negated
ReturnList_PartialNeg(v, neg) ==
    IF neg THEN <<v[4], FNeg(v[1]), FNeg(v[2]), FNeg(v[3])>>
    ELSE <<v[4], v[1], v[2], v[3]>>

\* lines 38-42 without the reordering
ReturnList_NoRotate(v, neg) ==
    IF neg THEN <<FNeg(v[1]), FNeg(v[2]), FNeg(v[3]), FNeg(v[4])>>
    ELSE <<v[1], v[2], v[3], v[4]>>

\* lines 38-42: the returned list; values[3] is the 4th element
ReturnList(v, neg) ==
    IF neg THEN <<FNeg(v[4]), FNeg(v[1]), FNeg(v[2]), FNeg(v[3])>>
    ELSE <<v[4], v[1], v[2], v[3]>>

\* lines 28-30: the three arguments of expand_float
Fields(p) == <<Field(p, 3), Field(p, 18), Field(p, 33)>>

\* lines 28-30: q1, q2, q3
Expanded(f) == <<expand_float(f[1]), expand_float(f[2]), expand_float(f[3])>>

\* lines 35-42, given pack, <<q1, q2, q3>> and the result mc of lines 33-34: every
\* local of the call and what it returns; "raised" when a statement raises
\* (math.sqrt on a negative number, values[3] on a short list), the locals of the
\* statements after it being left as they were
Locals(p, qs, mc) ==
    LET mi == MissingComponent(p)
        vs == ListInsert(qs, mi, mc)
    IN IF mc = DomainError
       THEN [raised |-> TRUE, pack |-> p, fld |-> Fields(p), q |-> qs,
             max_component |-> Clamped(qs[1], qs[2], qs[3]), missing_component |-> 0,
             values |-> qs, is_negative |-> FALSE, ret |-> <<>>]
       ELSE IF Len(vs) < 4
       THEN [raised |-> TRUE, pack |-> p, fld |-> Fields(p), q |-> qs,
             max_component |-> mc, missing_component |-> mi,
             values |-> vs, is_negative |-> IsNegative(p), ret |-> <<>>]
       ELSE [raised |-> FALSE, pack |-> p, fld |-> Fields(p), q |-> qs,
             max_component |-> mc, missing_component |-> mi,
             values |-> vs, is_negative |-> IsNegative(p),
             ret |-> ReturnList(vs, IsNegative(p))]

\* lines 33-42, given pack and <<q1, q2, q3>>
FromExpanded(p, qs) == Locals(p, qs, MaxComponent(qs[1], qs[2], qs[3]))

\* lines 18-42
unpack_48bit_quaternion(x, y, z) ==
    FromExpanded(PackOf(x, y, z), Expanded(Fields(PackOf(x, y, z))))

-----------------------------------------------------------------------------
(***************************************************************************)
(* The inputs the model draws.  x, y and z are 16-bit words; the words of  *)
(* lines 44-46 and 49 are always among them.  x takes every value of its   *)
(* low three bits (the missing index and the sign flag) over a grid of its *)
(* upper thirteen; y and z run over a grid of the 16-bit range.            *)
(***************************************************************************)
NSamples == 3

Grid(top) == {(k * top) \div NSamples : k \in 0..NSamples}

KnownX == 42
KnownY == 61442
KnownZ == 62196

XWords == {l + 8 * h : l \in 0..7, h \in Grid(8191) \cup {KnownX \div 8}}
YWords == Grid(65535) \cup {KnownY}
ZWords == Grid(65535) \cup {KnownZ}

NoFloat == FZero(0)

\* the bnsh2glsl process, not started
BIdle ==
    /\ bpc = "idle"
    /\ argv_len = 0
    /\ input_exists = FALSE
    /\ suffix_ok = FALSE
    /\ tool_exists = FALSE
    /\ checked = <<>>
    /\ runs = 0
    /\ returncode = -1
    /\ caught = "none"
    /\ out_exists = FALSE
    /\ n_glsl = 0
    /\ console = <<>>
    /\ success = FALSE
    /\ exit_code = -1

\* expand_float, not called on its own
EIdle ==
    /\ epc = "idle"
    /\ ei = 0
    /\ eret = NoFloat

\* unpack_48bit_quaternion, not called
UIdle ==
    /\ upc = "idle"
    /\ args = <<0, 0, 0>>
    /\ pack = <<>>
    /\ fld = <<>>
    /\ q = <<>>
    /\ max_component = NoFloat
    /\ missing_component = 0
    /\ values = <<>>
    /\ is_negative = FALSE
    /\ ret = <<>>

\* a call of unpack_48bit_quaternion(x, y, z) has been made (line 49, or any other caller)
Init ==
    /\ upc = "called"
    /\ args \in XWords \X YWords \X ZWords
    /\ pack = <<>>
    /\ fld = <<>>
    /\ q = <<>>
    /\ max_component = NoFloat
    /\ missing_component = 0
    /\ values = <<>>
    /\ is_negative = FALSE
    /\ ret = <<>>
    /\ EIdle
    /\ BIdle

\* the body of unpack_48bit_quaternion, lines 26-42
Unpack ==
    /\ upc = "called"
    /\ \E r \in {unpack_48bit_quaternion(args[1], args[2], args[3])} :
          /\ upc' = IF r.raised THEN "raised" ELSE "returned"
          /\ pack' = r.pack
          /\ fld' = <<BToInt(r.fld[1]), BToInt(r.fld[2]), BToInt(r.fld[3])>>
          /\ q' = r.q
          /\ max_component' = r.max_component
          /\ missing_component' = r.missing_component
          /\ values' = r.values
          /\ is_negative' = r.is_negative
          /\ ret' = r.ret
    /\ UNCHANGED <<args, evars, bvars>>

Next == Unpack

Spec == Init /\ [][Next]_vars

-----------------------------------------------------------------------------
(***************************************************************************)
(* expand_float called on its own, over its whole domain 0..SCALE.         *)
(***************************************************************************)
InitExpand ==
    /\ epc = "called"
    /\ ei \in 0..SCALE
    /\ eret = NoFloat
    /\ UIdle
    /\ BIdle

\* lines 9-15
Expand ==
    /\ epc = "called"
    /\ epc' = "returned"
    /\ eret' = expand_float(BFromInt(ei))
    /\ UNCHANGED <<ei, uvars, bvars>>

NextExpand == Expand

SpecExpand == InitExpand /\ [][NextExpand]_vars

-----------------------------------------------------------------------------
(***************************************************************************)
(* src/web/tools/bnsh/bnsh2glsl.py: one process running main.  The         *)
(* arguments and the file system are what the process finds (any           *)
(* combination); the external executable ends with any status up to        *)
(* MaxReturnCode or cannot be started at all.                              *)
(***************************************************************************)
MaxArgv == 4
MaxReturnCode == 2
MaxGlsl == 2

\* line 94: len(sys.argv) != 3
WrongUsage(n) == n # 3

\* line 39: not input_path.exists()
InputMissing(exists) == ~exists

\* line 47 with the check left out
ToolMissing_Never(exists) == FALSE

\* line 47: not BNSH_TO_GLSL_EXE.exists()
ToolMissing(exists) == ~exists

\* line 67, check=True: a non-zero status raises CalledProcessError
RaisesCalledProcessError(rc) == rc # 0

\* line 77 indented under the if of line 70: None, which is falsy, without the directory
ReturnAfterRun_IfExists(exists) == exists

\* lines 70-77: what convert_bnsh returns once subprocess.run has returned
ReturnAfterRun(exists) == TRUE

\* line 102: 0 if success else 1
ExitStatus(ok) == IF ok THEN 0 ELSE 1

InitBnsh ==
    /\ bpc = "main"
    /\ argv_len \in 1..MaxArgv
    /\ input_exists \in BOOLEAN
    /\ suffix_ok \in BOOLEAN
    /\ tool_exists \in BOOLEAN
    /\ checked = <<>>
    /\ runs = 0
    /\ returncode = -1
    /\ caught = "none"
    /\ out_exists = FALSE
    /\ n_glsl = 0
    /\ console = <<>>
    /\ success = FALSE
    /\ exit_code = -1
    /\ UIdle
    /\ EIdle

\* lines 94-99: the usage check of main
MainUsage ==
    /\ bpc = "main"
    /\ IF WrongUsage(argv_len)
       THEN /\ console' = Append(console, "usage")
            /\ exit_code' = 1
            /\ bpc' = "exited"
       ELSE /\ bpc' = "check_input"
            /\ UNCHANGED <<console, exit_code>>
    /\ UNCHANGED <<benv, checked, runs, returncode, caught, out_exists, n_glsl, success, uvars,
                   evars>>

\* lines 35-41
CheckInput ==
    /\ bpc = "check_input"
    /\ IF InputMissing(input_exists)
       THEN /\ console' = Append(console, "input_missing")
            /\ success' = FALSE
            /\ bpc' = "returned"
            /\ UNCHANGED checked
       ELSE /\ checked' = IF input_exists THEN Append(checked, "input") ELSE checked
            /\ bpc' = "check_suffix"
            /\ UNCHANGED <<console, success>>
    /\ UNCHANGED <<benv, runs, returncode, caught, out_exists, n_glsl, exit_code, uvars, evars>>

\* lines 43-44: a warning only
CheckSuffix ==
    /\ bpc = "check_suffix"
    /\ console' = IF suffix_ok THEN console ELSE Append(console, "suffix_warning")
    /\ bpc' = "check_tool"
    /\ UNCHANGED <<benv, checked, runs, returncode, caught, out_exists, n_glsl, success,
                   exit_code, uvars, evars>>

\* lines 47-54
CheckTool ==
    /\ bpc = "check_tool"
    /\ IF ToolMissing(tool_exists)
       THEN /\ console' = Append(console, "tool_missing")
            /\ success' = FALSE
            /\ bpc' = "returned"
            /\ UNCHANGED checked
       ELSE /\ checked' = IF tool_exists THEN Append(checked, "tool") ELSE checked
            /\ bpc' = "banner"
            /\ UNCHANGED <<console, success>>
    /\ UNCHANGED <<benv, runs, returncode, caught, out_exists, n_glsl, exit_code, uvars, evars>>

\* lines 57-63
Banner ==
    /\ bpc = "banner"
    /\ console' = Append(console, "banner")
    /\ bpc' = "run"
    /\ UNCHANGED <<benv, checked, runs, returncode, caught, out_exists, n_glsl, success,
                   exit_code, uvars, evars>>

\* lines 65-67 with the handlers of lines 79-90: the executable is started and
\* ends with status rc, or subprocess.run raises before it has a status (OSError)
RunTool ==
    /\ bpc = "run"
    /\ runs' = runs + 1
    /\ \E started \in BOOLEAN, rc \in 0..MaxReturnCode :
          IF ~started
          THEN /\ rc = 0
               /\ caught' = "Exception"
               /\ console' = Append(console, "error")
               /\ success' = FALSE
               /\ bpc' = "returned"
               /\ UNCHANGED returncode
          ELSE IF RaisesCalledProcessError(rc)
          THEN /\ returncode' = rc
               /\ caught' = "CalledProcessError"
               /\ console' = Append(console, "failed")
               /\ success' = FALSE
               /\ bpc' = "returned"
          ELSE /\ returncode' = rc
               /\ bpc' = "count"
               /\ UNCHANGED <<caught, console, success>>
    /\ UNCHANGED <<benv, checked, out_exists, n_glsl, exit_code, uvars, evars>>

\* lines 70-77, still inside the try: the output directory is looked at, and a
\* statement of the block (the glob, a print) may raise, which lines 85-90 catch
CountFiles ==
    /\ bpc = "count"
    /\ \E exists \in BOOLEAN, n \in 0..MaxGlsl, raises \in BOOLEAN :
          /\ out_exists' = exists
          /\ IF ~exists
             THEN /\ n = 0 /\ ~raises
                  /\ success' = ReturnAfterRun(exists)
                  /\ UNCHANGED <<n_glsl, console, caught>>
             ELSE IF raises
             THEN /\ n = 0
                  /\ caught' = "Exception"
                  /\ console' = Append(console, "error")
                  /\ success' = FALSE
                  /\ UNCHANGED n_glsl
             ELSE /\ n_glsl' = n
                  /\ console' = Append(console, "converted")
                  /\ success' = ReturnAfterRun(exists)
                  /\ UNCHANGED caught
    /\ bpc' = "returned"
    /\ UNCHANGED <<benv, checked, runs, returncode, exit_code, uvars, evars>>

\* lines 101-102
Exit ==
    /\ bpc = "returned"
    /\ exit_code' = ExitStatus(success)
    /\ bpc' = "exited"
    /\ UNCHANGED <<benv, checked, runs, returncode, caught, out_exists, n_glsl, console, success,
                   uvars, evars>>

NextBnsh ==
    \/ MainUsage
    \/ CheckInput
    \/ CheckSuffix
    \/ CheckTool
    \/ Banner
    \/ RunTool
    \/ CountFiles
    \/ Exit

SpecBnsh == InitBnsh /\ [][NextBnsh]_vars

-----------------------------------------------------------------------------
(***************************************************************************)
(* Properties of unpack_48bit_quaternion (Spec).                           *)
(***************************************************************************)
\* bit i of a machine-size n >= 0
BitOf(n, i) == (n \div Pow2(i)) % 2

\* bits lo .. lo + 14 of p, as a number
BitsAt(p, lo) ==
    LET v[j \in 0..15] == IF j = 15 THEN 0 ELSE BBit(p, lo + j) + 2 * v[j + 1]
    IN v[0]

RemoveAt(l, i) == SubSeq(l, 1, i - 1) \o SubSeq(l, i + 1, Len(l))

NegList(l) == [i \in 1..Len(l) |-> FNeg(l[i])]

One == FFromInt(1)

\* C1: pack holds x in bits 0-15, y in bits 16-31 and z in bits 32-47 and nothing
\* above; the three expanded fields are bits 3-17, 18-32 and 33-47 of pack, each in
\* 0..32767; with the missing index (bits 0-1) and the sign flag (bit 2) they make
\* up pack, every bit once.
C1_PackLayout ==
    upc = "returned" =>
        /\ BBitLen(pack) <= 48
        /\ \A i \in 0..15 :
              /\ BBit(pack, i) = BitOf(args[1], i)
              /\ BBit(pack, 16 + i) = BitOf(args[2], i)
              /\ BBit(pack, 32 + i) = BitOf(args[3], i)
        /\ fld = <<BitsAt(pack, 3), BitsAt(pack, 18), BitsAt(pack, 33)>>
        /\ \A k \in 1..3 : fld[k] \in 0..32767
        /\ fld[1] = (args[1] \div 8) + 8192 * (args[2] % 4)
        /\ fld[2] = (args[2] \div 4) + 16384 * (args[3] % 2)
        /\ fld[3] = args[3] \div 2
        /\ missing_component = BBit(pack, 0) + 2 * BBit(pack, 1)
        /\ is_negative = (BBit(pack, 2) = 1)
        /\ pack = BAdd(BAdd(BFromInt(missing_component + (IF is_negative THEN 4 ELSE 0)),
                            BShl(BFromInt(fld[1]), 3)),
                       BAdd(BShl(BFromInt(fld[2]), 18), BShl(BFromInt(fld[3]), 33)))

\* the call of line 49 has returned, its fields straddling the word boundaries
C1_Witness ==
    /\ upc = "returned"
    /\ args = <<KnownX, KnownY, KnownZ>>
    /\ fld = <<16389, 15360, 31098>>
    /\ missing_component = 2
    /\ ~is_negative

\* C2: with bit 2 of pack clear the list is returned un-negated, and the same
\* input with bit 2 set returns the component-wise negation of it, bit for bit.
C2_SignInversion ==
    (upc = "returned" /\ ~is_negative) =>
        /\ ret = <<values[4], values[1], values[2], values[3]>>
        /\ \E r \in {unpack_48bit_quaternion(args[1] + 4, args[2], args[3])} :
              /\ ~r.raised
              /\ r.pack = BAdd(pack, <<4>>)
              /\ r.is_negative
              /\ r.ret = NegList(ret)

\* a call with bit 2 clear has returned four non-zero components
C2_Witness ==
    /\ upc = "returned"
    /\ ~is_negative
    /\ BitOf(args[1], 2) = 0
    /\ \A i \in 1..4 : ret[i].m # <<>>

\* C3: before the reordering the magnitude is at index m = pack & 3 of the list and
\* q1, q2, q3 fill the other indices in order; the same input with any other
\* missing index gives the same four values, the magnitude at the new index.
C3_MissingIndex ==
    upc = "returned" =>
        /\ missing_component = args[1] % 4
        /\ Len(values) = 4
        /\ values[missing_component + 1] = max_component
        /\ RemoveAt(values, missing_component + 1) = q
        /\ \A m2 \in 0..3 :
              \E r \in {unpack_48bit_quaternion(args[1] - missing_component + m2,
                                                args[2], args[3])} :
                 /\ ~r.raised
                 /\ r.missing_component = m2
                 /\ r.q = q
                 /\ r.max_component = max_component
                 /\ r.values[m2 + 1] = max_component
                 /\ RemoveAt(r.values, m2 + 1) = q
                 /\ r.is_negative = is_negative

\* the magnitude inserted in the middle of three values that differ from it
C3_Witness ==
    /\ upc = "returned"
    /\ missing_component = 1
    /\ values[2] = max_component
    /\ \A k \in 1..3 : q[k] # max_component

\* r is the correctly rounded square root of v >= 0: v lies between the squares of
\* the two midpoints around r (exact arithmetic on the mantissas)
IsSqrtOf(r, v) ==
    IF v.m = <<>> THEN r.m = <<>>
    ELSE /\ r.m # <<>> /\ r.s = 0 /\ v.s = 0
         /\ LET lo == BSub(BShl(r.m, 1), <<1>>)
                hi == BAdd(BShl(r.m, 1), <<1>>)
                e2 == 2 * r.e - 2
                e0 == Min(e2, v.e)
                V  == BShl(v.m, v.e - e0)
            IN /\ BCmp(BShl(BMul(lo, lo), e2 - e0), V) <= 0
               /\ BCmp(V, BShl(BMul(hi, hi), e2 - e0)) <= 0

\* C4: the reconstructed component is a real number, never negative, never the
\* error of a square root outside its domain; it is exactly 0.0 whenever the
\* squared sum exceeds 1, and the square root of 1 - sum otherwise.
C4_Magnitude ==
    upc \in {"returned", "raised"} =>
        \E sum \in {SumSquares(q[1], q[2], q[3])} :
           /\ max_component # DomainError
           /\ FInRange(max_component)
           /\ max_component.s = 0
           /\ FLt(One, sum) => max_component = FZero(0)
           /\ ~FLt(One, sum) => IsSqrtOf(max_component, FSub(One, sum))

\* the squared sum exceeds 1 and the magnitude is clamped
C4_Witness ==
    /\ upc = "returned"
    /\ FLt(One, SumSquares(q[1], q[2], q[3]))
    /\ max_component = FZero(0)

\* C5: no call raises; every call returns a list of exactly four numbers.
C5_Total ==
    /\ upc # "raised"
    /\ upc = "returned" =>
          /\ Len(ret) = 4
          /\ \A i \in 1..4 : FInRange(ret[i])

\* the all-zero pattern, whose stored components have squared sum above 1, returns
C5_Witness ==
    /\ upc = "returned"
    /\ args = <<0, 0, 0>>
    /\ fld = <<0, 0, 0>>
    /\ Len(ret) = 4

\* w^2 + x^2 + y^2 + z^2, as Python evaluates it
Norm(r) == FAdd(FAdd(FAdd(FMul(r[1], r[1]), FMul(r[2], r[2])), FMul(r[3], r[3])),
                FMul(r[4], r[4]))

\* the float 1e-6, 0x1.0c6f7a0b5ed8dp-20
Tolerance == [s |-> 0, e |-> -72, m |-> <<28045, 16747, 7134, 134>>]

\* C7: when the squared sum of the three expanded values is at most 1, the four
\* returned components have |w^2 + x^2 + y^2 + z^2 - 1| < 1e-6.
C7_UnitNorm ==
    (upc = "returned" /\ FLe(SumSquares(q[1], q[2], q[3]), One)) =>
        FLt(FAbs(FSub(Norm(ret), One)), Tolerance)

\* the known vector of line 49: squared sum 0.49998..., magnitude 0.70712...
C7_Witness ==
    /\ upc = "returned"
    /\ args = <<KnownX, KnownY, KnownZ>>
    /\ FLe(SumSquares(q[1], q[2], q[3]), One)
    /\ max_component = [s |-> 0, e |-> -53, m |-> <<19884, 17818, 745, 181>>]
    /\ ret[4] = max_component

\* C8: the returned list is [list[3], list[0], list[1], list[2]], negated when the
\* sign flag is set; the magnitude is at index (m + 1) mod 4 of it, first exactly
\* when m = 3, and q1, q2, q3 keep their cyclic order in the other positions.
C8_Reordering ==
    upc = "returned" =>
        \E pos \in {(missing_component + 1) % 4} :
           /\ ret = IF is_negative
                    THEN NegList(<<values[4], values[1], values[2], values[3]>>)
                    ELSE <<values[4], values[1], values[2], values[3]>>
           /\ ret[pos + 1] = IF is_negative THEN FNeg(max_component) ELSE max_component
           /\ (pos = 0) <=> (missing_component = 3)
           /\ \E k \in 0..2 :
                 RemoveAt(ret, pos + 1) =
                     [j \in 1..3 |-> IF is_negative THEN FNeg(q[((j - 1 + k) % 3) + 1])
                                     ELSE q[((j - 1 + k) % 3) + 1]]

\* missing index 3 with the sign flag set: the negated magnitude comes first
C8_Witness ==
    /\ upc = "returned"
    /\ missing_component = 3
    /\ is_negative
    /\ max_component.m # <<>>
    /\ ret[1] = FNeg(max_component)
    /\ ret[2] = FNeg(q[1])

-----------------------------------------------------------------------------
(***************************************************************************)
(* Properties of expand_float (SpecExpand).                                *)
(***************************************************************************)
\* C6: expand_float maps 0..32767 into [-pi/4, pi/4], 0 to -pi/4 and 32767 to pi/4
\* exactly, and is strictly increasing.
C6_DomainMapping ==
    epc = "returned" =>
        /\ FLe(FNeg(PI_QUARTER), eret)
        /\ FLe(eret, PI_QUARTER)
        /\ FInRange(eret)
        /\ ei = 0 => eret = FNeg(PI_QUARTER)
        /\ ei = 32767 => eret = PI_QUARTER
        /\ ei < 32767 => FLt(eret, expand_float(BFromInt(ei + 1)))

\* the upper endpoint has been computed
C6_Witness ==
    /\ epc = "returned"
    /\ ei = 32767
    /\ eret = [s |-> 0, e |-> -53, m |-> <<11544, 10376, 2029, 201>>]

-----------------------------------------------------------------------------
(***************************************************************************)
(* Properties of bnsh2glsl.py (SpecBnsh).                                  *)
(***************************************************************************)
\* C9: the process ends with status 0 exactly when it had two arguments, the input
\* file and the executable existed, and the executable ran and ended with status
\* 0 with no exception raised; it ends with status 1 otherwise.
C9_ExitStatus ==
    /\ bpc # "exited" => exit_code = -1
    /\ bpc = "exited" =>
          /\ exit_code \in {0, 1}
          /\ (exit_code = 0) <=>
                /\ argv_len = 3
                /\ input_exists
                /\ tool_exists
                /\ runs = 1
                /\ returncode = 0
                /\ caught = "none"

\* status 0 although the output directory does not exist after the run
C9_Witness ==
    /\ bpc = "exited"
    /\ exit_code = 0
    /\ runs = 1
    /\ ~out_exists

\* C10: the executable is started at most once, and only after the input file and
\* then the executable were found to exist; a failed check returns False with no
\* start; a suffix other than .bnsh warns and does not stop the start.
C10_ChecksFirst ==
    /\ runs <= 1
    /\ runs = 1 => (checked = <<"input", "tool">> /\ input_exists /\ tool_exists)
    /\ (~input_exists \/ ~tool_exists) =>
          /\ runs = 0
          /\ bpc \in {"returned", "exited"} /\ argv_len = 3 => ~success
    /\ (bpc \in {"returned", "exited"} /\ argv_len = 3 /\ input_exists /\ tool_exists) =>
          runs = 1
    /\ (\E i \in 1..Len(console) : console[i] = "suffix_warning") <=>
          (~suffix_ok /\ Len(checked) >= 1 /\ bpc # "check_suffix")

\* the executable was started for an input whose suffix is not .bnsh
C10_Witness ==
    /\ runs = 1
    /\ ~suffix_ok
    /\ console = <<"suffix_warning", "banner">>

=============================================================================
